---- MODULE Spec2Model ----
(***************************************************************************)
(* Model of src/extraction.py: the per-rank extraction pass                *)
(* (run_extraction), the gather / sort-by-id reconciliation, the rank-0    *)
(* index build with its three artifacts, and the process launcher (main).  *)
(*                                                                         *)
(* Ranks are 0-based as in the source.  Sequences are 1-based, so the      *)
(* dataset index k (0-based, as DataLoader/DistributedSampler use it) is   *)
(* stored at position k + 1.                                               *)
(***************************************************************************)
EXTENDS Integers, Sequences, FiniteSets, TLC

\* ---------------------------------------------------------------- bounds
MaxWorld == 2
MaxN == 3
MaxBatch == 2
MaxMaskBatch == 3

\* save_sample_images(..., num_samples: int = 5)
NumSamplesDefault == 5

VARIABLES
    cfg,            \* Config: distributed, world_size, batch_size (data.batch_size)
    dataset,        \* ObjectDataset: dataset[k + 1] is the id of the sample at index k
    pc,             \* per rank: position in run_extraction
    batch_idx,      \* per rank: number of batches drained from the dataloader
    all_features,   \* per rank: list of per-batch feature matrices
    all_metadata,   \* per rank: accumulated metadata dict ({} until the first batch)
    arrival,        \* ranks in the order they reached dist.barrier()
    sent,           \* per rank: the objects it handed to all_gather_object
    result,         \* per rank: (all_features, all_metadata) after line 496 / 501
    faiss,          \* rows held by the rank-0 FaissIndexStrategy
    written,        \* files written under config.output_dir, with the writing rank
    group,          \* per rank: state of the process group
    err,            \* per rank: the exception that ended the try body, if any
    call,           \* a direct call of a FeatureExtractor method: its arguments
    ret             \* what that call returned or raised

vars == <<cfg, dataset, pc, batch_idx, all_features, all_metadata, arrival, sent,
          result, faiss, written, group, err, call, ret>>

\* ------------------------------------------------------------- utilities
Range(s) == {s[i] : i \in 1..Len(s)}

Min(a, b) == IF a < b THEN a ELSE b

CeilDiv(a, b) == (a + b - 1) \div b

\* A Python list or tensor given by its elements, as a sequence value
AsList(f) == f \o <<>>

RECURSIVE Concat(_)
\* list.extend over a list of lists (lines 464-467, np.vstack at line 501)
Concat(ss) == IF ss = <<>> THEN <<>> ELSE Head(ss) \o Concat(Tail(ss))

\* Datasets: the ids 1..n in every order, for n in 0..MaxN (ids are unique per
\* sample and the code only compares them, so their order is what matters;
\* the order in which the dataset yields them is free).
IdOrders(n) ==
    {s \in [1..n -> 1..n] : \A i, j \in 1..n : i # j => s[i] # s[j]}

Datasets == UNION {IdOrders(n) : n \in 0..MaxN}

Configs ==
    {[distributed |-> d, world_size |-> w, batch_size |-> b] :
        d \in BOOLEAN, w \in 1..MaxWorld, b \in 1..MaxBatch}

\* main: one process per rank under spawn, rank 0 alone otherwise
Ranks == IF cfg.distributed THEN 0..(cfg.world_size - 1) ELSE {0}

N == Len(dataset)

\* ------------------------------------------------- sampler and dataloader
\* DistributedSampler(dataset, shuffle=False), drop_last=False:
\*   num_samples = ceil(N / W); total_size = num_samples * W;
\*   indices = range(N) padded with its own head up to total_size;
\*   the rank's indices are indices[rank : total_size : W].
NumSamplesPerRank == CeilDiv(N, cfg.world_size)

TotalSize == NumSamplesPerRank * cfg.world_size

PaddedIndices == AsList([j \in 1..TotalSize |-> (j - 1) % N])

DistributedShard(rank) ==
    AsList([j \in 1..NumSamplesPerRank |->
                PaddedIndices[rank + (j - 1) * cfg.world_size + 1]])

\* sampler=None, shuffle=False: the sequential sampler
SequentialShard == AsList([j \in 1..N |-> j - 1])

\* The dataset indices rank `rank` iterates, in iteration order
Shard(rank) == IF cfg.distributed THEN DistributedShard(rank) ELSE SequentialShard

\* len(dataloader) with drop_last=False
NumBatches(rank) == CeilDiv(Len(Shard(rank)), cfg.batch_size)

\* The dataset indices of batch b (0-based) of the rank's dataloader
BatchIndices(rank, b) ==
    SubSeq(Shard(rank), b * cfg.batch_size + 1,
           Min((b + 1) * cfg.batch_size, Len(Shard(rank))))

\* ------------------------------------------------------ samples, batches
MetaFields == {"id", "object_name", "data_dir", "image_path", "mask_path", "dataset_type"}

\* A non-id field of the sample at dataset index k is the token k: it names
\* the sample the value came from.
FieldOf(f, k) == IF f = "id" THEN dataset[k + 1] ELSE k

\* The collated metadata bundle of a batch: one array per field, index-aligned
Column(f, idxs) == AsList([i \in 1..Len(idxs) |-> FieldOf(f, idxs[i])])

BatchMetadata(idxs) ==
    [id |-> Column("id", idxs),
     object_name |-> Column("object_name", idxs),
     data_dir |-> Column("data_dir", idxs),
     image_path |-> Column("image_path", idxs),
     mask_path |-> Column("mask_path", idxs),
     dataset_type |-> Column("dataset_type", idxs)]

\* The vector the encoder on rank `rank` produced for the sample at index k
Feature(rank, k) == [sample |-> k, rank |-> rank]

\* extract_features: one vector per image of the batch, in batch order
BatchFeatures(rank, idxs) == AsList([i \in 1..Len(idxs) |-> Feature(rank, idxs[i])])

\* The empty dict {} that all_metadata / flat_metadata start as
EmptyDict == [empty |-> TRUE]

\* A rank that has not entered all_gather_object has contributed nothing
NotSent == [sent |-> FALSE]

\* ---------------------------------------------------------------- files
File(name, i) == <<name, i>>

Wrote(rank, files) == {[file |-> f, rank |-> rank] : f \in files}

LogFile(rank) == File("process_log", rank)

\* save_sample_images: original_{i}.png and masked_{i}.png for i < min(num_samples, B)
SampleImageFiles(batch_size) ==
    {File(kind, i) : kind \in {"original", "masked"},
                     i \in 0..(Min(NumSamplesDefault, batch_size) - 1)}

IndexFile == File("feature_index", 0)
MetadataFile == File("metadata.json", 0)
SummaryFile == File("processing_summary.txt", 0)

Artifacts == {IndexFile, MetadataFile, SummaryFile}

Exists(f) == \E rec \in written : rec.file = f

\* No FeatureExtractor method is being called on its own
NoCall == [fn |-> "none"]

\* ------------------------------------------------------------------ Init
Init ==
    /\ cfg \in Configs
    /\ dataset \in Datasets
    /\ (~cfg.distributed) => cfg.world_size = 1
    /\ pc = [r \in Ranks |-> "start"]
    /\ batch_idx = [r \in Ranks |-> 0]
    /\ all_features = [r \in Ranks |-> <<>>]
    /\ all_metadata = [r \in Ranks |-> EmptyDict]
    /\ arrival = <<>>
    /\ sent = [r \in Ranks |-> NotSent]
    /\ result = [r \in Ranks |-> EmptyDict]
    /\ faiss = <<>>
    /\ written = {}
    /\ group = [r \in Ranks |-> "none"]
    /\ err = [r \in Ranks |-> "none"]
    /\ call = NoCall
    /\ ret = NoCall

\* ------------------------------------------------------- run_extraction
\* setup_logging and setup_distributed (lines 369-374, outside the try).
\* setup_distributed raises either from init_process_group (no group exists)
\* or from torch.cuda.set_device (lines 178, 373: the group exists); both
\* leave run_extraction before the try, so no finally clause runs.
Start(w) ==
    /\ pc[w] = "start"
    /\ written' = written \cup Wrote(w, {LogFile(w)})
    /\ IF cfg.distributed
       THEN \E outcome \in {"ok", "init_fail", "device_fail"} :
              /\ group' = [group EXCEPT ![w] = IF outcome = "init_fail" THEN "none" ELSE "init"]
              /\ pc' = [pc EXCEPT ![w] = IF outcome = "ok" THEN "loop" ELSE "failed"]
              /\ err' = [err EXCEPT ![w] =
                            CASE outcome = "ok" -> "none"
                              [] outcome = "init_fail" -> "ProcessGroupInitError"
                              [] OTHER -> "DeviceError"]
       ELSE /\ pc' = [pc EXCEPT ![w] = "loop"]
            /\ UNCHANGED <<group, err>>
    /\ UNCHANGED <<call, ret, cfg, dataset, batch_idx, all_features, all_metadata, arrival, sent,
                   result, faiss>>

\* Lines 439-448: the first batch's bundle becomes all_metadata, later
\* bundles are appended field by field.
AccumulateMetadata(acc, metadata) ==
    IF acc = EmptyDict
    THEN metadata
    ELSE [id |-> acc.id \o metadata.id,
          object_name |-> acc.object_name \o metadata.object_name,
          data_dir |-> acc.data_dir \o metadata.data_dir,
          image_path |-> acc.image_path \o metadata.image_path,
          mask_path |-> acc.mask_path \o metadata.mask_path,
          dataset_type |-> acc.dataset_type \o metadata.dataset_type]

\* One iteration of the batch loop (lines 430-453) with process_batch and
\* extract_features inlined: the masks are loaded (a missing mask raises,
\* lines 344-352), the sample images are saved (save_sample_images has no
\* handler: a failure there raises out of extract_features), the encoder
\* runs, and the batch is appended to the rank's log.
ProcessBatch(w) ==
    /\ pc[w] = "loop"
    /\ batch_idx[w] < NumBatches(w)
    /\ LET idxs == BatchIndices(w, batch_idx[w])
       IN \E outcome \in {"ok", "mask_error", "save_error"} :
            IF outcome = "ok"
            THEN /\ written' = written \cup Wrote(w, SampleImageFiles(Len(idxs)))
                 /\ all_features' = [all_features EXCEPT ![w] = Append(@, BatchFeatures(w, idxs))]
                 /\ all_metadata' = [all_metadata EXCEPT ![w] =
                                        AccumulateMetadata(@, BatchMetadata(idxs))]
                 /\ batch_idx' = [batch_idx EXCEPT ![w] = @ + 1]
                 /\ UNCHANGED <<pc, err>>
            ELSE /\ pc' = [pc EXCEPT ![w] = "error"]
                 /\ err' = [err EXCEPT ![w] = IF outcome = "mask_error"
                                                THEN "MaskLoadError"
                                                ELSE "SampleImageError"]
                 /\ UNCHANGED <<written, all_features, all_metadata, batch_idx>>
    /\ UNCHANGED <<call, ret, cfg, dataset, arrival, sent, result, faiss, group>>

\* Lines 454-456: the shard is drained and the rank blocks in dist.barrier()
EnterBarrier(w) ==
    /\ cfg.distributed
    /\ pc[w] = "loop"
    /\ batch_idx[w] = NumBatches(w)
    /\ pc' = [pc EXCEPT ![w] = "barrier"]
    /\ arrival' = Append(arrival, w)
    /\ UNCHANGED <<call, ret, cfg, dataset, batch_idx, all_features, all_metadata, sent, result,
                   faiss, written, group, err>>

\* A barrier that lets a rank through without waiting for the others
PassWithoutWaiting(w) ==
    /\ pc[w] = "barrier"
    /\ pc' = [pc EXCEPT ![w] = "gather"]
    /\ sent' = [sent EXCEPT ![w] = [features |-> all_features[w],
                                    metadata |-> all_metadata[w]]]
    /\ UNCHANGED <<call, ret, cfg, dataset, batch_idx, all_features, all_metadata, arrival,
                   result, faiss, written, group, err>>

\* Lines 456-461: the barrier releases once every rank has arrived; the rank
\* then enters the two all_gather_object calls, which pickle its all_features
\* and all_metadata and hand the copies to the collective.
PassBarrier(w) ==
    /\ pc[w] = "barrier"
    /\ Range(arrival) = Ranks
    /\ pc' = [pc EXCEPT ![w] = "gather"]
    /\ sent' = [sent EXCEPT ![w] = [features |-> all_features[w],
                                    metadata |-> all_metadata[w]]]
    /\ UNCHANGED <<call, ret, cfg, dataset, batch_idx, all_features, all_metadata, arrival,
                   result, faiss, written, group, err>>

\* ------------------------------------------------------- reconciliation
\* A gather that fills its slots in the order the ranks reached the barrier
GatherByArrival == arrival

\* all_gather_object fills slot r of the gathered lists with rank r's object
GatherOrder == AsList([i \in 1..cfg.world_size |-> i - 1])

\* Line 460: gathered_features after all_gather_object
gathered_features == AsList([i \in 1..Len(GatherOrder) |-> sent[GatherOrder[i]].features])

\* Line 461: gathered_metadata after all_gather_object
gathered_metadata == AsList([i \in 1..Len(GatherOrder) |-> sent[GatherOrder[i]].metadata])

\* Lines 462-467: every gathered batch matrix is extended into one flat list
FlatFeatures(gf) == Concat(AsList([i \in 1..Len(gf) |-> Concat(gf[i])]))

\* Lines 471-479, one gathered dict folded into flat_metadata: the first
\* dict is taken as is; after that the id tensor is torch.cat((proc, flat))
\* while the five list fields are flat.extend(proc).
MergeMetadata(flat, proc) ==
    IF flat = EmptyDict
    THEN proc
    ELSE [id |-> proc.id \o flat.id,
          object_name |-> flat.object_name \o proc.object_name,
          data_dir |-> flat.data_dir \o proc.data_dir,
          image_path |-> flat.image_path \o proc.image_path,
          mask_path |-> flat.mask_path \o proc.mask_path,
          dataset_type |-> flat.dataset_type \o proc.dataset_type]

RECURSIVE FoldMetadata(_, _)
\* Lines 469-479: the loop over gathered_metadata
FoldMetadata(flat, gm) ==
    IF gm = <<>> THEN flat ELSE FoldMetadata(MergeMetadata(flat, Head(gm)), Tail(gm))

FlatMetadata(gm) == FoldMetadata(EmptyDict, gm)

\* sorted(..., key=lambda x: x[1]) is stable: index i lands behind every index
\* with a smaller id and behind every smaller index with an equal id.
SortedPosition(ids, i) ==
    1 + Cardinality({j \in 1..Len(ids) :
                        ids[j] < ids[i] \/ (ids[j] = ids[i] /\ j < i)})

\* A sort that keeps one index per distinct id (the first occurrence)
SortedDistinctIndices(ids) ==
    AsList([p \in 1..Cardinality(Range(ids)) |->
                CHOOSE i \in 1..Len(ids) :
                    /\ \A j \in 1..(i - 1) : ids[j] # ids[i]
                    /\ Cardinality({v \in Range(ids) : v < ids[i]}) = p - 1])

\* Lines 481-483: sorted_indices (here 1-based positions into the flat lists)
SortedIndices(ids) ==
    AsList([p \in 1..Len(ids) |-> CHOOSE i \in 1..Len(ids) : SortedPosition(ids, i) = p])

\* array[sorted_indices], [lst[i] for i in sorted_indices]
Reindex(lst, indices) == AsList([i \in 1..Len(indices) |-> lst[indices[i]]])

\* Lines 484-494: features and every metadata field reindexed by sorted_indices
ApplyPermutation(flat_features, flat_metadata, sorted_indices) ==
    [features |-> Reindex(flat_features, sorted_indices),
     metadata |-> [id |-> Reindex(flat_metadata.id, sorted_indices),
                   object_name |-> Reindex(flat_metadata.object_name, sorted_indices),
                   data_dir |-> Reindex(flat_metadata.data_dir, sorted_indices),
                   image_path |-> Reindex(flat_metadata.image_path, sorted_indices),
                   mask_path |-> Reindex(flat_metadata.mask_path, sorted_indices),
                   dataset_type |-> Reindex(flat_metadata.dataset_type, sorted_indices)]]

\* Lines 462-496 on the gathered lists.  flat_metadata['id'] on a dict that is
\* still {} (no rank drained a batch) raises KeyError.
Reconciled(gf, gm) ==
    LET flat_features == FlatFeatures(gf)
        flat_metadata == FlatMetadata(gm)
    IN IF flat_metadata = EmptyDict
       THEN EmptyDict
       ELSE ApplyPermutation(flat_features, flat_metadata,
                             SortedIndices(flat_metadata["id"]))

\* Lines 460-499: both all_gather_object calls complete once every rank has
\* entered them, then the rank flattens, sorts by id and reindexes.
Reconcile(w) ==
    /\ pc[w] = "gather"
    /\ \A r \in Ranks : sent[r] # NotSent
    /\ LET res == Reconciled(gathered_features, gathered_metadata)
       IN IF res = EmptyDict
          THEN /\ pc' = [pc EXCEPT ![w] = "error"]
               /\ err' = [err EXCEPT ![w] = "KeyError"]
               /\ UNCHANGED result
          ELSE /\ result' = [result EXCEPT ![w] = res]
               /\ pc' = [pc EXCEPT ![w] = IF w = 0 THEN "add" ELSE "success"]
               /\ UNCHANGED err
    /\ UNCHANGED <<call, ret, cfg, dataset, batch_idx, all_features, all_metadata, arrival, sent,
                   faiss, written, group>>

\* Lines 500-501, single-process mode: np.vstack(all_features) raises
\* ValueError on an empty list; all_metadata stays the accumulated dict.
Stack(w) ==
    /\ ~cfg.distributed
    /\ pc[w] = "loop"
    /\ batch_idx[w] = NumBatches(w)
    /\ IF all_features[w] = <<>>
       THEN /\ pc' = [pc EXCEPT ![w] = "error"]
            /\ err' = [err EXCEPT ![w] = "ValueError"]
            /\ UNCHANGED result
       ELSE /\ result' = [result EXCEPT ![w] =
                            [features |-> Concat(all_features[w]),
                             metadata |-> all_metadata[w]]]
            /\ pc' = [pc EXCEPT ![w] = "add"]
            /\ UNCHANGED err
    /\ UNCHANGED <<call, ret, cfg, dataset, batch_idx, all_features, all_metadata, arrival, sent,
                   faiss, written, group>>

\* ---------------------------------------------------- rank-0 index build
\* Lines 505-508: faiss_index.add(all_features); it raises on a feature
\* matrix the index rejects (dimension mismatch).
IndexAdd(w) ==
    /\ pc[w] = "add"
    /\ \E ok \in BOOLEAN :
         IF ok
         THEN /\ faiss' = result[w].features
              /\ pc' = [pc EXCEPT ![w] = "save"]
              /\ UNCHANGED err
         ELSE /\ pc' = [pc EXCEPT ![w] = "error"]
              /\ err' = [err EXCEPT ![w] = "IndexAddError"]
              /\ UNCHANGED faiss
    /\ UNCHANGED <<call, ret, cfg, dataset, batch_idx, all_features, all_metadata, arrival, sent,
                   result, written, group>>

\* Lines 509-511: faiss_index.save(index_path)
IndexSave(w) ==
    /\ pc[w] = "save"
    /\ \E ok \in BOOLEAN :
         IF ok
         THEN /\ written' = written \cup Wrote(w, {IndexFile})
              /\ pc' = [pc EXCEPT ![w] = "meta"]
              /\ UNCHANGED err
         ELSE /\ pc' = [pc EXCEPT ![w] = "error"]
              /\ err' = [err EXCEPT ![w] = "IndexSaveError"]
              /\ UNCHANGED written
    /\ UNCHANGED <<call, ret, cfg, dataset, batch_idx, all_features, all_metadata, arrival, sent,
                   result, faiss, group>>

\* all_metadata['id'] is a torch tensor (lines 443, 474 concatenate it with
\* torch.cat); only line 488, on the distributed path, turns it into a list.
\* json.dump raises TypeError on a tensor.
JsonSerializable == cfg.distributed

\* Lines 514-517: open(metadata_path, "w") creates the file, json.dump fills it
WriteMetadata(w) ==
    /\ pc[w] = "meta"
    /\ written' = written \cup Wrote(w, {MetadataFile})
    /\ \E ok \in BOOLEAN :
         IF ok /\ JsonSerializable
         THEN /\ pc' = [pc EXCEPT ![w] = "summary"]
              /\ UNCHANGED err
         ELSE /\ pc' = [pc EXCEPT ![w] = "error"]
              /\ err' = [err EXCEPT ![w] = IF JsonSerializable THEN "OSError" ELSE "TypeError"]
    /\ UNCHANGED <<call, ret, cfg, dataset, batch_idx, all_features, all_metadata, arrival, sent,
                   result, faiss, group>>

\* Lines 518-544: open(summary_path, "w") creates the file, the writes fill it
WriteSummary(w) ==
    /\ pc[w] = "summary"
    /\ written' = written \cup Wrote(w, {SummaryFile})
    /\ \E ok \in BOOLEAN :
         IF ok
         THEN /\ pc' = [pc EXCEPT ![w] = "success"]
              /\ UNCHANGED err
         ELSE /\ pc' = [pc EXCEPT ![w] = "error"]
              /\ err' = [err EXCEPT ![w] = "OSError"]
    /\ UNCHANGED <<call, ret, cfg, dataset, batch_idx, all_features, all_metadata, arrival, sent,
                   result, faiss, group>>

\* ------------------------------------------------------ exit and launcher
\* Lines 546-551: the except clause re-raises, the finally clause calls
\* cleanup, whose dist.destroy_process_group() is not guarded: when it
\* raises, that exception leaves run_extraction.  The locals of
\* run_extraction are gone once it has returned or raised.
Finish(w) ==
    /\ pc[w] \in {"success", "error"}
    /\ IF cfg.distributed
       THEN \E ok \in BOOLEAN :
              /\ group' = [group EXCEPT ![w] = IF ok THEN "destroyed" ELSE "destroy_failed"]
              /\ pc' = [pc EXCEPT ![w] = IF ok /\ pc[w] = "success" THEN "done" ELSE "failed"]
              /\ err' = [err EXCEPT ![w] = IF ok THEN @ ELSE "DestroyError"]
       ELSE /\ pc' = [pc EXCEPT ![w] = IF pc[w] = "success" THEN "done" ELSE "failed"]
            /\ UNCHANGED <<group, err>>
    /\ batch_idx' = [batch_idx EXCEPT ![w] = 0]
    /\ all_features' = [all_features EXCEPT ![w] = <<>>]
    /\ all_metadata' = [all_metadata EXCEPT ![w] = EmptyDict]
    /\ result' = [result EXCEPT ![w] = EmptyDict]
    /\ UNCHANGED <<call, ret, cfg, dataset, arrival, sent, faiss, written>>

Terminal == {"done", "failed", "terminated"}

\* A launcher that notices the failed process and leaves the others running
SpawnDetached ==
    /\ cfg.distributed
    /\ \E r \in Ranks : pc[r] = "failed"
    /\ \E r \in Ranks : pc[r] \notin Terminal
    /\ UNCHANGED vars

\* Lines 576-583: torch.multiprocessing.spawn(..., join=True) terminates the
\* remaining processes as soon as one process has exited with an error; the
\* memory of a terminated process is gone.
SpawnJoin ==
    /\ cfg.distributed
    /\ \E r \in Ranks : pc[r] = "failed"
    /\ \E r \in Ranks : pc[r] \notin Terminal
    /\ pc' = [r \in Ranks |-> IF pc[r] \in Terminal THEN pc[r] ELSE "terminated"]
    /\ batch_idx' = [r \in Ranks |-> 0]
    /\ all_features' = [r \in Ranks |-> <<>>]
    /\ all_metadata' = [r \in Ranks |-> EmptyDict]
    /\ result' = [r \in Ranks |-> EmptyDict]
    /\ sent' = [r \in Ranks |-> NotSent]
    /\ UNCHANGED <<call, ret, cfg, dataset, arrival, faiss, written, group, err>>

Next ==
    \/ \E w \in Ranks : Start(w)
    \/ \E w \in Ranks : ProcessBatch(w)
    \/ \E w \in Ranks : EnterBarrier(w)
    \/ \E w \in Ranks : PassBarrier(w)
    \/ \E w \in Ranks : Reconcile(w)
    \/ \E w \in Ranks : Stack(w)
    \/ \E w \in Ranks : IndexAdd(w)
    \/ \E w \in Ranks : IndexSave(w)
    \/ \E w \in Ranks : WriteMetadata(w)
    \/ \E w \in Ranks : WriteSummary(w)
    \/ \E w \in Ranks : Finish(w)
    \/ SpawnJoin

Spec == Init /\ [][Next]_vars

\* A rank whose try body has ended runs its finally clause and exits, and the
\* launcher, blocked in join, reacts to a failed child.  Nothing is assumed
\* about the progress of a rank inside its try body.
FairSpec ==
    /\ Spec
    /\ \A w \in 0..(MaxWorld - 1) : WF_vars(w \in Ranks /\ Finish(w))
    /\ WF_vars(SpawnJoin)

\* ------------------------------------------- FeatureExtractor, on its own
\* extract_features and _prepare_binary_mask called directly with arbitrary
\* tensors.  A mask and an image are one pixel each; mask values and
\* thresholds are in tenths (5 is 0.5), so every comparison is exact.
DefaultThreshold == 5

MaskValues == {2, 5, 6, 9}

Thresholds == {2, 5, 6, 9}

\* Image i of a batch has the pixel value i
ImageBatches == {AsList([i \in 1..n |-> i]) : n \in 1..MaxMaskBatch}

MaskBatches == UNION {[1..n -> MaskValues] : n \in 1..MaxMaskBatch}

ExtractCalls ==
    {[fn |-> "extract_features", images |-> imgs, masks |-> m,
      threshold |-> DefaultThreshold] : imgs \in ImageBatches, m \in MaskBatches}

BinarizeCalls ==
    {[fn |-> "_prepare_binary_mask", images |-> <<>>, masks |-> m,
      threshold |-> t] : m \in MaskBatches, t \in Thresholds}

Pending == [status |-> "pending"]

\* One extractor in a single process, about to be called
ExtractorInit ==
    /\ cfg = [distributed |-> FALSE, world_size |-> 1, batch_size |-> 1]
    /\ dataset = <<>>
    /\ pc = [r \in Ranks |-> "start"]
    /\ batch_idx = [r \in Ranks |-> 0]
    /\ all_features = [r \in Ranks |-> <<>>]
    /\ all_metadata = [r \in Ranks |-> EmptyDict]
    /\ arrival = <<>>
    /\ sent = [r \in Ranks |-> NotSent]
    /\ result = [r \in Ranks |-> EmptyDict]
    /\ faiss = <<>>
    /\ written = {}
    /\ group = [r \in Ranks |-> "none"]
    /\ err = [r \in Ranks |-> "none"]
    /\ call \in ExtractCalls \cup BinarizeCalls
    /\ ret = Pending

\* A binarization that also keeps the values equal to the threshold
PrepareBinaryMaskInclusive(mask, threshold) ==
    AsList([i \in 1..Len(mask) |-> IF mask[i] >= threshold THEN 1 ELSE 0])

\* Line 276: (mask > threshold).float()
PrepareBinaryMask(mask, threshold) ==
    AsList([i \in 1..Len(mask) |-> IF mask[i] > threshold THEN 1 ELSE 0])

\* Line 302, images * binary_masks: torch broadcasts dimension 0 when the two
\* sizes are equal or one of them is 1, and raises RuntimeError otherwise.
Broadcastable(a, b) == a = b \/ a = 1 \/ b = 1

BroadcastSize(a, b) == IF a = 1 THEN b ELSE a

\* Row i of a tensor broadcast along dimension 0
BroadcastRow(t, i) == IF Len(t) = 1 THEN t[1] ELSE t[i]

\* Lines 297-302: masked_images = images * binary_masks
MaskImages(images, binary_masks) ==
    AsList([i \in 1..BroadcastSize(Len(images), Len(binary_masks)) |->
                BroadcastRow(images, i) * BroadcastRow(binary_masks, i)])

\* Lines 306-307: the encoder returns one vector per masked image
Encode(masked_images) ==
    AsList([i \in 1..Len(masked_images) |-> [encoded |-> masked_images[i]]])

\* _prepare_binary_mask(mask, threshold) called on its own (lines 265-277)
PrepareBinaryMaskCall ==
    /\ call.fn = "_prepare_binary_mask"
    /\ ret = Pending
    /\ ret' = [status |-> "returned",
               value |-> PrepareBinaryMask(call.masks, call.threshold)]
    /\ UNCHANGED <<call, cfg, dataset, pc, batch_idx, all_features, all_metadata,
                   arrival, sent, result, faiss, written, group, err>>

\* extract_features(images, masks) called on its own (lines 279-310): the
\* masks are binarized with the default threshold, broadcast against the
\* images and multiplied, the samples are saved (no handler around
\* save_sample_images), the encoder runs.
ExtractFeatures ==
    /\ call.fn = "extract_features"
    /\ ret = Pending
    /\ LET binary_masks == PrepareBinaryMask(call.masks, DefaultThreshold)
           masked_images == MaskImages(call.images, binary_masks)
       IN IF ~Broadcastable(Len(call.images), Len(binary_masks))
          THEN /\ ret' = [status |-> "raised", error |-> "RuntimeError"]
               /\ UNCHANGED written
          ELSE \E save_ok \in BOOLEAN :
                 IF save_ok
                 THEN /\ written' = written \cup
                                       Wrote(0, SampleImageFiles(Len(call.images)))
                      /\ ret' = [status |-> "returned",
                                 binary_masks |-> binary_masks,
                                 masked_images |-> masked_images,
                                 features |-> Encode(masked_images)]
                 ELSE /\ ret' = [status |-> "raised", error |-> "SampleImageError"]
                      /\ UNCHANGED written
    /\ UNCHANGED <<call, cfg, dataset, pc, batch_idx, all_features, all_metadata,
                   arrival, sent, result, faiss, group, err>>

ExtractorNext ==
    \/ PrepareBinaryMaskCall
    \/ ExtractFeatures

ExtractorSpec == ExtractorInit /\ [][ExtractorNext]_vars

\* ------------------------------------------------------------ properties
Distributed2 == cfg.distributed /\ cfg.world_size >= 2

HasResult(w) == result[w] # EmptyDict

\* The ids rank r has logged so far
LogIds(r) == IF all_metadata[r] = EmptyDict THEN <<>> ELSE all_metadata[r]["id"]

\* How many times rank r has logged the sample with this id
Occurrences(r, id) == Cardinality({j \in 1..Len(LogIds(r)) : LogIds(r)[j] = id})

AllDrained == \A r \in Ranks : pc[r] # "start" /\ batch_idx[r] = NumBatches(r)

StrictlyIncreasing(s) == \A i \in 1..(Len(s) - 1) : s[i] < s[i + 1]

\* C1: in distributed mode with W >= 2, row i of the output feature matrix is
\* the vector produced for the sample whose id is in row i of the output
\* metadata id column.
C1_FeatureRowsMatchIds ==
    \A w \in Ranks :
        (Distributed2 /\ HasResult(w)) =>
            \A i \in 1..Len(result[w].features) :
                dataset[result[w].features[i].sample + 1] = result[w].metadata["id"][i]

\* C2: the id column of the result handed to the index builder is strictly
\* increasing, in distributed and in single-process mode.
C2_IdsStrictlyIncreasing ==
    HasResult(0) => StrictlyIncreasing(result[0].metadata["id"])

\* C3: once every rank has drained its shard, every sample of the dataset has
\* been iterated by exactly one rank, exactly once.
C3_ShardsPartition ==
    AllDrained =>
        \A k \in 1..N :
            \E r \in Ranks :
                /\ Occurrences(r, dataset[k]) = 1
                /\ \A q \in Ranks \ {r} : Occurrences(q, dataset[k]) = 0

AllSent == \A r \in Ranks : sent[r] # NotSent

\* The ids rank r handed to all_gather_object
SentIds(r) == IF sent[r].metadata = EmptyDict THEN <<>> ELSE sent[r].metadata["id"]

\* The ids all_gather_object collects, rank by rank
GatheredIds == Concat(AsList([i \in 1..cfg.world_size |-> SentIds(i - 1)]))

HasDuplicate(s) == \E i, j \in 1..Len(s) : i # j /\ s[i] = s[j]

\* C4: when the gathered ids hold a duplicate or their count differs from the
\* dataset size, reconciliation ends in an integrity error: the rank never
\* reaches the index build and no artifact is written.
C4_IntegrityErrorOnBadIds ==
    (cfg.distributed /\ AllSent
        /\ (HasDuplicate(GatheredIds) \/ Len(GatheredIds) # N)) =>
        /\ \A w \in Ranks : ~HasResult(w)
        /\ \A w \in Ranks : pc[w] \notin {"add", "save", "meta", "summary", "success", "done"}
        /\ \A f \in Artifacts : ~Exists(f)

RunEnded == \A w \in Ranks : pc[w] \in Terminal

RunFailed == RunEnded /\ \E w \in Ranks : pc[w] # "done"

\* C5: a run that ends in failure leaves none of the three artifacts.
C5_NoArtifactsAfterFailure ==
    RunFailed => \A f \in Artifacts : ~Exists(f)

\* C7: apart from the per-rank log files, files under the output directory
\* are written by rank 0 only, in a distributed run only once rank 0 holds
\* the reconciled result (checked while rank 0 is running), and no file is
\* written by two ranks.
C7_OnlyRankZeroWrites ==
    /\ \A rec \in written :
          rec.file # LogFile(rec.rank) =>
              (rec.rank = 0 /\ ((cfg.distributed /\ pc[0] \notin Terminal) => HasResult(0)))
    /\ \A a, b \in written : a.file = b.file => a.rank = b.rank

\* C8: in distributed mode with W >= 2, every output metadata row holds the
\* six fields of one and the same input sample.
C8_MetadataRowsAligned ==
    \A w \in Ranks :
        (Distributed2 /\ HasResult(w)) =>
            \A i \in 1..Len(result[w].metadata["id"]) :
                \E k \in 0..(N - 1) :
                    \A f \in MetaFields : result[w].metadata[f][i] = FieldOf(f, k)

\* C9: a run over an empty dataset raises nothing on account of the dataset
\* being empty.
C9_EmptyDatasetDoesNotRaise ==
    N = 0 => \A w \in Ranks : err[w] \notin {"ValueError", "KeyError"}

\* What a rank logs when it drains its whole shard, as a function of the
\* shard alone
ShardFeatures(r) == <<AsList([j \in 1..Len(Shard(r)) |-> Feature(r, Shard(r)[j])])>>

ShardMetadata(r) == IF Len(Shard(r)) = 0 THEN EmptyDict ELSE BatchMetadata(Shard(r))

ExpectedResult ==
    Reconciled(AsList([i \in 1..cfg.world_size |-> ShardFeatures(i - 1)]),
               AsList([i \in 1..cfg.world_size |-> ShardMetadata(i - 1)]))

\* C10: for fixed shard contents the reconciled result is the same on every
\* rank and under every interleaving and every barrier arrival order: it is
\* the result computed from the shards in rank order.
C10_ResultIndependentOfTiming ==
    \A w \in Ranks :
        (cfg.distributed /\ HasResult(w)) => result[w] = ExpectedResult

\* C10 witness: a rank holds its reconciled result after the ranks reached
\* the barrier in an order other than rank order.
C10_Witness ==
    \E w \in Ranks :
        /\ Distributed2 /\ HasResult(w)
        /\ arrival # GatherOrder
        /\ cfg.batch_size < Len(Shard(w))

FailedBeforeBarrier(w) ==
    /\ cfg.distributed
    /\ pc[w] \in {"error", "failed"}
    /\ w \notin Range(arrival)

\* C6: once a rank has failed before reaching the barrier, every rank
\* eventually terminates, the ranks blocked in the barrier included.
C6_FailureUnblocksBarrier ==
    (\E w \in Ranks : FailedBeforeBarrier(w)) ~> RunEnded

\* C6 witness: a rank failed on a missing mask before the barrier and a rank
\* that was blocked in the barrier has been terminated.
C6_Witness ==
    \E w, r \in Ranks :
        /\ FailedBeforeBarrier(w)
        /\ err[w] = "MaskLoadError"
        /\ r \in Range(arrival)
        /\ pc[r] = "terminated"

\* C11: a failure of save_sample_images is never the exception that ends a
\* rank's try body: it is logged and the rank goes on with its batches.
C11_SampleImageFailureNotFatal ==
    \A w \in Ranks : err[w] # "SampleImageError"

\* C12: in distributed mode a rank that has exited with its process group
\* initialized has attempted destroy_process_group, on every exit path.
C12_TeardownOnEveryExit ==
    \A w \in Ranks :
        (cfg.distributed /\ pc[w] \in {"done", "failed"}) => group[w] # "init"

\* C13: when destroy_process_group fails, the rank's outcome is the one it
\* had before teardown: the teardown error is not the reported error, and a
\* rank without an earlier error ends as done.
C13_TeardownFailureNotEscalated ==
    \A w \in Ranks :
        group[w] = "destroy_failed" =>
            /\ err[w] # "DestroyError"
            /\ (err[w] = "none" => pc[w] = "done")

\* C16: in distributed mode no rank has entered the all-gather and no
\* artifact exists unless every rank has drained its shard and reached the
\* barrier; once a rank has failed before the barrier no artifact exists.
C16_BarrierBeforeReconciliation ==
    cfg.distributed =>
        /\ ((\E w \in Ranks : pc[w] = "gather" \/ sent[w] # NotSent \/ HasResult(w))
                => Range(arrival) = Ranks)
        /\ ((\E f \in Artifacts : Exists(f)) => Range(arrival) = Ranks)
        /\ ((\E w \in Ranks : FailedBeforeBarrier(w))
                => \A f \in Artifacts : ~Exists(f))

\* C16 witness: with two or more ranks, rank 0 has saved the index after
\* every rank passed the barrier.
C16_Witness ==
    Distributed2 /\ Exists(IndexFile) /\ Range(arrival) = Ranks

\* How many times x occurs in the list s
Count(s, x) == Cardinality({i \in 1..Len(s) : s[i] = x})

SameMultiset(s, t) ==
    /\ Len(s) = Len(t)
    /\ \A x \in Range(s) \cup Range(t) : Count(s, x) = Count(t, x)

\* The feature rows all_gather_object collects, rank by rank
GatheredRows == Concat(AsList([i \in 1..cfg.world_size |-> Concat(sent[i - 1].features)]))

\* C17: the output id column is a rearrangement of the gathered ids and the
\* output feature matrix a rearrangement of the gathered feature rows: same
\* count, nothing dropped, nothing added, also when ids repeat.
C17_ReconcileOnlyReorders ==
    \A w \in Ranks :
        (cfg.distributed /\ HasResult(w)) =>
            /\ SameMultiset(result[w].metadata["id"], GatheredIds)
            /\ SameMultiset(result[w].features, GatheredRows)

\* C17 witness: a rank holds a reconciled result whose id column repeats an
\* id and has several distinct ids.
C17_Witness ==
    \E w \in Ranks :
        /\ Distributed2 /\ HasResult(w)
        /\ HasDuplicate(result[w].metadata["id"])
        /\ Cardinality(Range(result[w].metadata["id"])) >= 2

\* C14: extract_features never returns masked images or features when the
\* batch size of the masks differs from that of the images.
C14_ShapeMismatchRaises ==
    (call.fn = "extract_features" /\ Len(call.masks) # Len(call.images)) =>
        ret.status # "returned"

\* C15: _prepare_binary_mask maps every mask value v to 1 if v > threshold
\* and to 0 otherwise, elementwise, for every threshold; extract_features
\* binarizes with the default threshold.
C15_StrictThreshold ==
    /\ (call.fn = "_prepare_binary_mask" /\ ret.status = "returned") =>
          /\ Len(ret.value) = Len(call.masks)
          /\ \A i \in 1..Len(call.masks) :
                ret.value[i] = (IF call.masks[i] > call.threshold THEN 1 ELSE 0)
    /\ (call.fn = "extract_features" /\ ret.status = "returned") =>
          /\ Len(ret.binary_masks) = Len(call.masks)
          /\ \A i \in 1..Len(call.masks) :
                ret.binary_masks[i] = (IF call.masks[i] > DefaultThreshold THEN 1 ELSE 0)

\* C15 witness: the values 0.2, 0.6, 0.5 binarized at 0.5 gave 0, 1, 0
C15_Witness ==
    /\ call.fn = "_prepare_binary_mask"
    /\ call.threshold = DefaultThreshold
    /\ call.masks = <<2, 6, 5>>
    /\ ret.status = "returned"
    /\ ret.value = <<0, 1, 0>>

====
